---- MODULE Spec2Model ----
(***************************************************************************)
(* A model of the Telegram audio-downloader bot (src/bot.py):              *)
(*   - the serial download Queue (asyncio tasks on one event loop),        *)
(*   - Environment's allow-list parsing and is_whitelisted,                *)
(*   - the UserPreferences store and its JSON document,                    *)
(*   - the update dispatcher and the URL / callback handlers,              *)
(*   - the formats of a URL, the quality buttons and the download options, *)
(*   - the TranslationService cache and its JSON document,                 *)
(*   - the dashboard's Start Bot / Stop Bot (src/streamlit_app.py) and the *)
(*     run loop and shutdown of TelegramYTDLBot.start,                     *)
(*   - the temporary files of the two download functions,                  *)
(*   - the Updater's daily timer, on a clock of seconds,                   *)
(*   - handle_callback_query on arbitrary payloads.                        *)
(* Each component has a specification of its own (SpecQueue, SpecEnv,      *)
(* SpecPrefs, Spec, SpecTiers, SpecTrans, SpecCloud, SpecTemp,             *)
(* SpecUpdater, SpecCallback); the variables of the others stay idle.      *)
(***************************************************************************)
EXTENDS Integers, Sequences, FiniteSets, TLC

(***************************************************************************)
(* Bounds of the model.                                                    *)
(***************************************************************************)
\* number of Queue.add calls explored
MaxAdds == 3
\* number of comma-separated tokens, or of array elements, in WHITELISTED_IDS
MaxTokens == 2
\* number of updates (URL messages and button presses) the bot receives
MaxUpdates == 3

\* bot instances the dashboard starts
MaxBots == 2

VARIABLES
    \* ---- Queue (src/bot.py:479-508) and the event loop running its tasks
    queue,      \* Queue.queue: the list of executors, head first
    running,    \* Queue.running
    lock,       \* Queue.lock: 0 when free, else the bump task holding it
    cur,        \* the task the event loop is executing now, 0 between tasks
    bpc,        \* position of each bump task (one is created by every add)
    brun,       \* the job a bump task is awaiting in Queue.run, 0 if none
    jst,        \* state of each job (executor)
    nadds,      \* number of Queue.add calls made so far
    \* ---- Environment (src/bot.py:228-245) and is_whitelisted
    admin_str,        \* the ADMIN_ID environment variable, a string
    whitelist_str,    \* the WHITELISTED_IDS environment variable
    ADMIN_ID,         \* env.ADMIN_ID (NoAdmin for None)
    WHITELISTED_IDS,  \* env.WHITELISTED_IDS
    envpc,            \* "unset", "ready", "crashed" (Environment() raised)
    asked,            \* the user id of the last is_whitelisted call, 0 if none
    answer,           \* its result: "yes", "no", "TypeError"; "none" before
    \* ---- UserPreferences (src/bot.py:306-336)
    preferences,      \* UserPreferences.preferences, the dict in memory
    prefs_file,       \* the document at prefs_file, if the file exists
    last,             \* the last set_user_preference completed: user, key, value
    got,              \* the last get_user_preference since then, and its result
    since,            \* "none", "set" after a set, "restarted" after a reload
    \* ---- the bot: updates, their handlers, the chat (src/bot.py:1027-1665)
    updates,          \* the updates received, in order of arrival
    hpc,              \* position of the handler of each update
    msg,              \* what the status message of each URL update shows
    hres,             \* how the handler of each update ended
    hfail,            \* whether its probe or its download failed
    threads,          \* the handlers whose worker thread outlived its timeout
    \* ---- one URL from probe to download: renditions and buttons
    \*      (src/bot.py:1138-1175, 1234-1244, 1347-1355, 1414-1492)
    renditions,       \* the formats yt-dlp finds for the URL
    tpc,              \* "idle", "url", "options", "error", "delivered", "failed"
    offered,          \* the buttons of the keyboard shown for the URL
    tiers,            \* what the download started by each quality button asks for
    \* ---- TranslationService (src/bot.py:511-570)
    api_key,             \* TranslationService.api_key
    saved_translations,  \* TranslationService.saved_translations, in memory
    translations_file,   \* the document at translations_file, if it exists
    trcall,              \* the last translate_text call and what it returned
    trfirst,             \* per (text, lang): the remote translation returned first
    \* ---- the dashboard in cloud mode and the bots it starts
    \*      (src/streamlit_app.py:99-222, 466-503, 661-685; src/bot.py:915-983)
    flag_file,           \* bot_running.flag exists
    bot_running,         \* st.session_state.bot_running
    bots,                \* per bot instance: position in start(), shutdown steps
    \* ---- the files of download_audio / download_spotify_audio
    \*      (src/bot.py:1397-1665)
    temp_dir,            \* what lies under storage/temp: <<call, "file" or "dir">>
    dl,                  \* the download call in progress, if any, and its position
    workers,             \* calls whose yt-dlp thread outlived the 300 s timeout
    \* ---- Updater (src/bot.py:573-634) and the wall clock
    now,                 \* datetime.now(): hour, minute, second
    upc,                 \* "new" before Updater(enabled), then "on" or "off"
    updating,            \* Updater.updating
    timers,              \* the pending call_later handles: seconds left of each
    utasks,              \* update() tasks created by a timer and not yet started
    \* ---- handle_callback_query on any payload (src/bot.py:1357-1395)
    cbq                  \* the last callback query handled and what it did

qvars == <<queue, running, lock, cur, bpc, brun, jst, nadds>>

envvars == <<admin_str, whitelist_str, ADMIN_ID, WHITELISTED_IDS, envpc, asked, answer>>

prefvars == <<preferences, prefs_file, last, got, since>>

botvars == <<updates, hpc, msg, hres, hfail, threads>>

tiervars == <<renditions, tpc, offered, tiers>>

transvars == <<api_key, saved_translations, translations_file, trcall, trfirst>>

\* the components added to the ones above
cloudvars == <<flag_file, bot_running, bots>>

tempvars == <<temp_dir, dl, workers>>

updvars == <<now, upc, updating, timers, utasks>>

auxvars == <<transvars, cloudvars, tempvars, updvars, cbq>>

vars == <<qvars, envvars, prefvars, botvars, tiervars, auxvars>>

\* the variables outside each component
notQueue == <<envvars, prefvars, botvars, tiervars, auxvars>>

notEnv == <<qvars, prefvars, botvars, tiervars, auxvars>>

notPrefs == <<qvars, envvars, botvars, tiervars, auxvars>>

\* the bot's handlers use the environment and the preferences, not the Queue
notBot == <<qvars, envvars, tiervars, auxvars>>

notTiers == <<qvars, envvars, prefvars, botvars, auxvars>>

core == <<qvars, envvars, prefvars, botvars, tiervars>>

notTrans == <<core, cloudvars, tempvars, updvars, cbq>>

notCloud == <<core, transvars, tempvars, updvars, cbq>>

notTemp == <<core, transvars, cloudvars, updvars, cbq>>

notUpdater == <<core, transvars, cloudvars, tempvars, cbq>>

\* handle_callback_query writes the preferences
notCallback == <<qvars, envvars, botvars, tiervars, transvars, cloudvars, tempvars, updvars>>

(***************************************************************************)
(* Environment: ADMIN_ID, WHITELISTED_IDS; is_whitelisted                  *)
(*                                                                         *)
(* A string is a sequence of characters.  WHITELISTED_IDS is given as the  *)
(* list of its comma-separated pieces (what split(",") returns) or, for a  *)
(* value written as a JSON array, the list of its elements.                *)
(***************************************************************************)
DigitChars == <<"0", "1", "2", "3", "4", "5", "6", "7", "8", "9">>

Digits == {DigitChars[i] : i \in 1..Len(DigitChars)}

DigitValue(c) == (CHOOSE i \in 1..Len(DigitChars) : DigitChars[i] = c) - 1

\* str.isdigit()
IsDigit(s) == s # <<>> /\ \A i \in 1..Len(s) : s[i] \in Digits

RECURSIVE StrToInt(_)
\* int(s) of a string of digits
StrToInt(s) ==
    IF s = <<>> THEN 0
    ELSE 10 * StrToInt(SubSeq(s, 1, Len(s) - 1)) + DigitValue(s[Len(s)])

RECURSIVE Strip(_)
\* str.strip()
Strip(s) ==
    IF s = <<>> THEN s
    ELSE IF s[1] = " " THEN Strip(Tail(s))
    ELSE IF s[Len(s)] = " " THEN Strip(SubSeq(s, 1, Len(s) - 1))
    ELSE s

\* None, for ADMIN_ID
NoAdmin == -1

\* `int(admin_id) if admin_id.strip() and admin_id.strip().isdigit() else None`
ParseAdmin(s) ==
    IF Strip(s) # <<>> /\ IsDigit(Strip(s)) THEN StrToInt(Strip(s)) ELSE NoAdmin

\* the pieces a value of WHITELISTED_IDS is made of
Pieces == {<<"1">>, <<"2">>, <<"1", "2">>, <<" ", "1">>, <<"x">>, <<>>}

\* the elements of a JSON array of integers
Numbers == {<<"1">>, <<"2">>, <<"1", "2">>}

SeqsUpTo(S, n) == UNION {[1..k -> S] : k \in 0..n}

\* the values of WHITELISTED_IDS: "csv" holds the pieces between the commas
\* (one piece: no comma at all), "json" the elements of a JSON array
WhitelistStrings ==
    {[form |-> "csv", parts |-> p] : p \in SeqsUpTo(Pieces, MaxTokens) \ {<<>>}}
        \cup {[form |-> "json", parts |-> p] : p \in SeqsUpTo(Numbers, MaxTokens)}

\* whitelist_str.strip() is empty
IsBlank(w) == w.form = "csv" /\ Len(w.parts) = 1 /\ Strip(w.parts[1]) = <<>>

\* an integer literal of JSON: digits, no leading zero
IsJsonNumber(s) == IsDigit(s) /\ (Len(s) = 1 \/ s[1] # "0")

\* json.loads(whitelist_str) succeeds: an array, or one bare number
JsonLoads(w) ==
    \/ w.form = "json"
    \/ w.form = "csv" /\ Len(w.parts) = 1 /\ IsJsonNumber(Strip(w.parts[1]))

StripIsDigit(s) == IsDigit(Strip(s))

StripToInt(s) == StrToInt(Strip(s))

\* [int(id.strip()) for id in q]
IntsOf(q) == [i \in 1..Len(q) |-> StripToInt(q[i])]

\* lines 234-241: the list (or, for one bare number, the int) parsed
ParseWhitelist(w) ==
    IF IsBlank(w) THEN [kind |-> "list", items |-> <<>>]
    ELSE IF JsonLoads(w)
        THEN [kind |-> IF w.form = "json" THEN "list" ELSE "int",
              items |-> IntsOf(w.parts)]
        ELSE [kind |-> "list",
              items |-> IntsOf(SelectSeq(w.parts, StripIsDigit))]

InSeq(x, q) == \E i \in 1..Len(q) : q[i] = x

\* the admin id is truthy: neither None nor 0
AdminSet(a) == a # NoAdmin /\ a # 0

\* lines 244-245: `in` on an int raises TypeError, else the admin is appended
AppendAdmin(wl, a) ==
    IF ~AdminSet(a) THEN wl
    ELSE IF wl.kind = "int" THEN [kind |-> "TypeError", items |-> <<>>]
    ELSE IF InSeq(a, wl.items) THEN wl
    ELSE [wl EXCEPT !.items = Append(@, a)]

UserIds == {1, 2, 12}

IdleEnv ==
    /\ admin_str = <<>>
    /\ whitelist_str = [form |-> "csv", parts |-> << <<>> >>]
    /\ ADMIN_ID = NoAdmin
    /\ WHITELISTED_IDS = [kind |-> "list", items |-> <<>>]
    /\ envpc = "ready"
    /\ asked = 0
    /\ answer = "none"

AdminStrings == {<<>>, <<"1">>, <<"2">>, <<"0">>, <<" ", "1">>, <<"x">>}

\* the process starts with any value of the two environment variables
InitEnv ==
    /\ admin_str \in AdminStrings
    /\ whitelist_str \in WhitelistStrings
    /\ ADMIN_ID = NoAdmin
    /\ WHITELISTED_IDS = [kind |-> "list", items |-> <<>>]
    /\ envpc = "unset"
    /\ asked = 0
    /\ answer = "none"

\* Environment.__init__, lines 228-245
EnvironmentInit ==
    /\ envpc = "unset"
    /\ LET a == ParseAdmin(admin_str)
           wl == AppendAdmin(ParseWhitelist(whitelist_str), a)
       IN /\ ADMIN_ID' = a
          /\ IF wl.kind = "TypeError"
                THEN /\ envpc' = "crashed"
                     /\ WHITELISTED_IDS' = ParseWhitelist(whitelist_str)
                ELSE /\ envpc' = "ready"
                     /\ WHITELISTED_IDS' = wl
    /\ UNCHANGED <<admin_str, whitelist_str, asked, answer, notEnv>>

\* is_whitelisted, lines 1027-1034: the value returned for user u
IsWhitelisted(wl, u) ==
    IF wl.kind = "int" THEN "TypeError"
    ELSE IF Len(wl.items) = 0 THEN "yes"
    ELSE IF InSeq(u, wl.items) THEN "yes" ELSE "no"

\* a call of is_whitelisted for an update of user u
AskWhitelisted(u) ==
    /\ envpc = "ready"
    /\ asked' = u
    /\ answer' = IsWhitelisted(WHITELISTED_IDS, u)
    /\ UNCHANGED <<admin_str, whitelist_str, ADMIN_ID, WHITELISTED_IDS, envpc, notEnv>>

(***************************************************************************)
(* UserPreferences                                                         *)
(*                                                                         *)
(* The dict in memory is a function from str(user_id) to a function from   *)
(* keys to values.  The file holds a JSON document: a set of members       *)
(* <<name, object>>, an object a set of members <<name, JSON string>>.     *)
(***************************************************************************)
PrefUsers == {1, 12}

PrefKeys == {"preferred_audio_quality", "preferred_format"}

\* the values the bot stores: the quality named by a button
PrefValues == {"high", "medium", "low"}

\* None, the default of get_user_preference
NoValue == "None"

RECURSIVE IntToStr(_)
\* str(user_id) of a non-negative int
IntToStr(n) ==
    IF n < 10 THEN <<DigitChars[n + 1]>>
    ELSE IntToStr(n \div 10) \o <<DigitChars[(n % 10) + 1]>>

EmptyDict == <<>>

\* json.dump of the dict: every key a member name, every value a JSON string
JsonDump(prefs) ==
    {<<us, {<<k, [string |-> prefs[us][k]]>> : k \in DOMAIN prefs[us]}>> : us \in DOMAIN prefs}

Member(obj, name) == (CHOOSE m \in obj : m[1] = name)[2]

\* json.load of a document: a dict of dicts of str
JsonLoad(doc) ==
    [us \in {m[1] : m \in doc} |->
        [k \in {e[1] : e \in Member(doc, us)} |-> Member(Member(doc, us), k).string]]

NoFile == [exists |-> FALSE, doc |-> {}]

\* load_preferences, lines 311-316
LoadPreferences(file) == IF file.exists THEN JsonLoad(file.doc) ELSE EmptyDict

\* a save that writes nothing
SavePreferencesNothing(prefs) == prefs_file

\* a save that writes only when there is no file yet
SavePreferencesOnce(prefs) ==
    IF prefs_file.exists THEN prefs_file ELSE [exists |-> TRUE, doc |-> JsonDump(prefs)]

\* save_preferences, lines 318-321: the file after the dict is dumped to it
SavePreferences(prefs) == [exists |-> TRUE, doc |-> JsonDump(prefs)]

\* get_user_preference, lines 323-328
GetPref(prefs, u, k, default) ==
    IF IntToStr(u) \in DOMAIN prefs /\ k \in DOMAIN prefs[IntToStr(u)]
        THEN prefs[IntToStr(u)][k]
        ELSE default

\* an assignment that gives the user a fresh dict every time
SetPrefFresh(prefs, u, k, v) == (IntToStr(u) :> (k :> v)) @@ prefs

\* set_user_preference, lines 332-335: the dict after the assignment
SetPref(prefs, u, k, v) ==
    LET us == IntToStr(u)
        p1 == IF us \in DOMAIN prefs THEN prefs ELSE (us :> EmptyDict) @@ prefs
    IN [p1 EXCEPT ![us] = (k :> v) @@ p1[us]]

NoCall == [u |-> 0, k |-> "", v |-> ""]

\* UserPreferences(prefs_file) on a storage directory without the file
InitPrefs ==
    /\ prefs_file = NoFile
    /\ preferences = LoadPreferences(NoFile)
    /\ last = NoCall
    /\ got = NoCall
    /\ since = "none"

\* set_user_preference, lines 330-336: the assignment, then the save
PrefSet(u, k, v) ==
    /\ preferences' = SetPref(preferences, u, k, v)
    /\ prefs_file' = SavePreferences(preferences')
    /\ last' = [u |-> u, k |-> k, v |-> v]
    /\ got' = NoCall
    /\ since' = "set"

\* a call of set_user_preference
SetUserPreference(u, k, v) ==
    /\ PrefSet(u, k, v)
    /\ UNCHANGED notPrefs

\* a call of get_user_preference(u, k) with the default None
GetUserPreference(u, k) ==
    /\ got' = [u |-> u, k |-> k, v |-> GetPref(preferences, u, k, NoValue)]
    /\ UNCHANGED <<preferences, prefs_file, last, since, notPrefs>>

\* the process restarts: a new UserPreferences loads the file (lines 307-309)
Restart ==
    /\ preferences' = LoadPreferences(prefs_file)
    /\ got' = NoCall
    /\ since' = IF since = "none" THEN "none" ELSE "restarted"
    /\ UNCHANGED <<prefs_file, last, notPrefs>>

(***************************************************************************)
(* Queue                                                                   *)
(***************************************************************************)
Tasks == 1..MaxAdds

\* a falsy executor (None): bump pops it and skips it (`if next_up:`)
Falsy == 0

Active(j) == jst[j] \in {"started", "suspended"}

Finished(j) == jst[j] \in {"done", "failed"}

InitQueue ==
    /\ queue = <<>>
    /\ running = FALSE
    /\ lock = 0
    /\ cur = 0
    /\ bpc = [t \in Tasks |-> "none"]
    /\ brun = [t \in Tasks |-> 0]
    /\ jst = [j \in Tasks |-> "none"]
    /\ nadds = 0

\* Queue.add: append the executor and create a bump task.  add is a plain
\* function, called by whatever task the loop runs; the queue's own tasks
\* are then not executing (cur = 0).
Add(callable) ==
    /\ cur = 0
    /\ nadds < MaxAdds
    /\ LET n == nadds + 1 IN
        /\ nadds' = n
        /\ queue' = Append(queue, IF callable THEN n ELSE Falsy)
        /\ jst' = [jst EXCEPT ![n] = IF callable THEN "queued" ELSE "none"]
        /\ bpc' = [bpc EXCEPT ![n] = "ready"]
    /\ UNCHANGED <<running, lock, cur, brun, notQueue>>

\* the event loop starts a bump task that create_task scheduled
BumpStart(t) ==
    /\ cur = 0
    /\ bpc[t] = "ready"
    /\ cur' = t
    /\ bpc' = [bpc EXCEPT ![t] = "acquire"]
    /\ UNCHANGED <<queue, running, lock, brun, jst, nadds, notQueue>>

\* `async with self.lock:` an asyncio.Lock that is free is taken without
\* suspending; a held one suspends the task until it is released
BumpAcquire(t) ==
    /\ cur = t
    /\ bpc[t] = "acquire"
    /\ IF lock = 0
          THEN /\ lock' = t
               /\ bpc' = [bpc EXCEPT ![t] = "check"]
               /\ cur' = cur
          ELSE /\ cur' = 0
               /\ bpc' = [bpc EXCEPT ![t] = "ready"]
               /\ lock' = lock
    /\ UNCHANGED <<queue, running, brun, jst, nadds, notQueue>>

\* a guard that resets the flag when it returns early
BumpCheckResets(t) ==
    /\ cur = t
    /\ bpc[t] = "check"
    /\ lock' = 0
    /\ IF running
          THEN /\ running' = FALSE
               /\ bpc' = [bpc EXCEPT ![t] = "done"]
               /\ cur' = 0
          ELSE /\ running' = TRUE
               /\ bpc' = [bpc EXCEPT ![t] = "loop"]
               /\ cur' = cur
    /\ UNCHANGED <<queue, brun, jst, nadds, notQueue>>

\* no guard at all: every bump starts a drain loop
BumpCheckNoGuard(t) ==
    /\ cur = t
    /\ bpc[t] = "check"
    /\ lock' = 0
    /\ running' = TRUE
    /\ bpc' = [bpc EXCEPT ![t] = "loop"]
    /\ UNCHANGED <<queue, cur, brun, jst, nadds, notQueue>>

\* `if self.running: return` / `self.running = True`, then the lock is released
BumpCheck(t) ==
    /\ cur = t
    /\ bpc[t] = "check"
    /\ lock' = 0
    /\ IF running
          THEN /\ bpc' = [bpc EXCEPT ![t] = "done"]
               /\ cur' = 0
               /\ running' = running
          ELSE /\ running' = TRUE
               /\ bpc' = [bpc EXCEPT ![t] = "loop"]
               /\ cur' = cur
    /\ UNCHANGED <<queue, brun, jst, nadds, notQueue>>

\* popping the tail instead of the head
PopLast(q) == Len(q)

\* `self.queue.pop(0)`: the index of the element popped
PopIndex(q) == 1

Without(q, i) == [k \in 1..(Len(q) - 1) |-> IF k < i THEN q[k] ELSE q[k + 1]]

\* `while self.queue:` pop the next executor; a truthy one is run (its
\* coroutine starts executing inside this task), a falsy one is skipped
BumpLoop(t) ==
    /\ cur = t
    /\ bpc[t] = "loop"
    /\ IF queue # <<>>
          THEN LET i == PopIndex(queue)
                   next_up == queue[i]
               IN /\ queue' = Without(queue, i)
                  /\ IF next_up # Falsy
                        THEN /\ jst' = [jst EXCEPT ![next_up] = "started"]
                             /\ brun' = [brun EXCEPT ![t] = next_up]
                             /\ bpc' = [bpc EXCEPT ![t] = "run"]
                        ELSE UNCHANGED <<jst, brun, bpc>>
          ELSE /\ bpc' = [bpc EXCEPT ![t] = "finally"]
               /\ UNCHANGED <<queue, jst, brun>>
    /\ UNCHANGED <<running, lock, cur, nadds, notQueue>>

\* the job reaches an await that really suspends: the loop runs other tasks
JobAwait(t) ==
    /\ cur = t
    /\ bpc[t] = "run"
    /\ jst' = [jst EXCEPT ![brun[t]] = "suspended"]
    /\ cur' = 0
    /\ UNCHANGED <<queue, running, lock, bpc, brun, nadds, notQueue>>

\* what the job awaited is ready: the loop resumes the bump task inside it
JobWake(t) ==
    /\ cur = 0
    /\ bpc[t] = "run"
    /\ jst[brun[t]] = "suspended"
    /\ jst' = [jst EXCEPT ![brun[t]] = "started"]
    /\ cur' = t
    /\ UNCHANGED <<queue, running, lock, bpc, brun, nadds, notQueue>>

\* Queue.run without its try/except: the exception leaves the drain loop
AfterRunPropagates(outcome) == IF outcome = "raise" THEN "finally" ELSE "loop"

\* Queue.run: `try: await executor()  except Exception: logger.error(...)`;
\* where bump continues once run is over, by the job's outcome
AfterRun(outcome) == "loop"

\* the job ends, by returning or by raising an Exception
JobEnd(t, outcome) ==
    /\ cur = t
    /\ bpc[t] = "run"
    /\ jst' = [jst EXCEPT ![brun[t]] = IF outcome = "raise" THEN "failed" ELSE "done"]
    /\ brun' = [brun EXCEPT ![t] = 0]
    /\ bpc' = [bpc EXCEPT ![t] = AfterRun(outcome)]
    /\ UNCHANGED <<queue, running, lock, cur, nadds, notQueue>>

JobReturn(t) == JobEnd(t, "return")

JobRaise(t) == JobEnd(t, "raise")

\* a drain loop that ends without resetting the flag
BumpFinallyKeepsFlag(t) ==
    /\ cur = t
    /\ bpc[t] = "finally"
    /\ bpc' = [bpc EXCEPT ![t] = "done"]
    /\ cur' = 0
    /\ UNCHANGED <<queue, running, lock, brun, jst, nadds, notQueue>>

\* `finally: async with self.lock: self.running = False`; the task ends
BumpFinally(t) ==
    /\ cur = t
    /\ bpc[t] = "finally"
    /\ IF lock = 0
          THEN /\ running' = FALSE
               /\ bpc' = [bpc EXCEPT ![t] = "done"]
          ELSE UNCHANGED <<running, bpc>>
    /\ cur' = 0
    /\ UNCHANGED <<queue, lock, brun, jst, nadds, notQueue>>

\* the steps of the tasks the event loop runs
QueueProgress ==
    \E t \in Tasks :
        \/ BumpStart(t)
        \/ BumpAcquire(t)
        \/ BumpCheck(t)
        \/ BumpLoop(t)
        \/ JobAwait(t)
        \/ JobWake(t)
        \/ JobReturn(t)
        \/ JobRaise(t)
        \/ BumpFinally(t)


(***************************************************************************)
(* The bot: dispatch of updates, handle_url_message, handle_callback_query *)
(*                                                                         *)
(* Update i is the i-th one received.  A URL message that is accepted gets *)
(* a status message, named by the update's number; a button press names    *)
(* the status message whose keyboard was pressed.  Every call of the chat  *)
(* API may fail (a parameter ok of the step that makes it).                *)
(***************************************************************************)
Updates == 1..MaxUpdates

BotUsers == {1, 2}

\* a URL of a supported platform other than Spotify, a Spotify URL, a URL
\* that is_limited_support_url or is_supported_url turn down
UrlKinds == {"yt", "spotify", "unsupported"}

\* callback_data of the buttons of show_audio_quality_options (lines 1347-1352):
\* the three quality buttons are handled alike, by the same lines, and one of
\* them is pressed here
Qualities == {"high"}

Buttons == Qualities \cup {"cancel"}

\* the application is built by ApplicationBuilder().token(...).build(): no
\* concurrent_updates, and every handler is added with its default block=True
ConcurrentUpdatesOn == TRUE

ConcurrentUpdates == FALSE

\* the bot is started with WHITELISTED_IDS=[1] and no ADMIN_ID: user 1 is
\* permitted, user 2 is not
BotWhitelist == [form |-> "json", parts |-> << <<"1">> >>]

IdleBot ==
    /\ updates = <<>>
    /\ hpc = [i \in Updates |-> "none"]
    /\ msg = [i \in Updates |-> "none"]
    /\ hres = [i \in Updates |-> "none"]
    /\ hfail = [i \in Updates |-> FALSE]
    /\ threads = {}

\* the state once Environment() and initialize() are over
InitBot ==
    /\ IdleBot
    /\ admin_str = <<>>
    /\ whitelist_str = BotWhitelist
    /\ ADMIN_ID = ParseAdmin(admin_str)
    /\ WHITELISTED_IDS = AppendAdmin(ParseWhitelist(whitelist_str), ADMIN_ID)
    /\ envpc = "ready"
    /\ asked = 0
    /\ answer = "none"

\* the status message a handler edits: its own for a URL message, the one
\* the pressed button sits on for a callback query
Target(i) == IF updates[i].kind = "url" THEN i ELSE updates[i].msg

\* the handler is inside extract_audio_info, download_audio or
\* download_spotify_audio
InJob(i) == hpc[i] \in {"probing", "downloading"}

HandlerActive(i) == hpc[i] \notin {"none", "pending", "done"}

\* the update fetcher takes the updates in order and, without concurrent
\* updates, awaits the handler of one before it takes the next
Dispatchable(i) ==
    /\ i \in 1..Len(updates)
    /\ hpc[i] = "pending"
    /\ \A j \in 1..(i - 1) : hpc[j] # "pending"
    /\ ConcurrentUpdates \/ \A j \in Updates : ~HandlerActive(j)

\* the handler that is inside a job, 0 if there is none
RunningJob == IF \E i \in Updates : InJob(i) THEN CHOOSE i \in Updates : InJob(i) ELSE 0

\* a user sends a message with a URL
ReceiveUrl(u, url) ==
    /\ Len(updates) < MaxUpdates
    /\ updates' = Append(updates,
          [kind |-> "url", user |-> u, url |-> url, msg |-> 0, data |-> "", during |-> 0])
    /\ hpc' = [hpc EXCEPT ![Len(updates) + 1] = "pending"]
    /\ UNCHANGED <<msg, hres, hfail, threads, prefvars, notBot>>

\* the chat client shows the keyboard of status message m: the bot put it up
\* (1355), or the edit that replaced it (1404) has not reached the client
\* yet, the download started from it being under way
KeyboardVisible(m) ==
    \/ msg[m] = "options"
    \/ \E i \in 1..Len(updates) :
          /\ updates[i].kind = "cb"
          /\ updates[i].msg = m
          /\ hpc[i] = "downloading"

\* a user presses a button of a status message that shows the keyboard;
\* `during` records the job that is executing when the press arrives
Press(u, m, b) ==
    /\ Len(updates) < MaxUpdates
    /\ KeyboardVisible(m)
    /\ updates' = Append(updates,
          [kind |-> "cb", user |-> u, url |-> "", msg |-> m, data |-> b, during |-> RunningJob])
    /\ hpc' = [hpc EXCEPT ![Len(updates) + 1] = "pending"]
    /\ UNCHANGED <<msg, hres, hfail, threads, prefvars, notBot>>

Finish(i, res) ==
    /\ hpc' = [hpc EXCEPT ![i] = "done"]
    /\ hres' = [hres EXCEPT ![i] = res]

\* handle_url_message (1071-1123) up to the call of extract_audio_info in
\* start_audio_download (1136-1141); ok: reply_text("Processing ...") succeeds
HandleUrlMessage(i, ok) ==
    /\ Dispatchable(i)
    /\ updates[i].kind = "url"
    /\ IF IsWhitelisted(WHITELISTED_IDS, updates[i].user) # "yes"
          THEN Finish(i, "denied") /\ UNCHANGED msg
          ELSE IF updates[i].url = "unsupported"
          THEN Finish(i, "rejected") /\ UNCHANGED msg
          ELSE IF ok
          THEN /\ msg' = [msg EXCEPT ![i] = "processing"]
               /\ hpc' = [hpc EXCEPT ![i] = "probing"]
               /\ UNCHANGED hres
          ELSE Finish(i, "raised") /\ UNCHANGED msg
    /\ UNCHANGED <<updates, hfail, threads, prefvars, notBot>>

\* the except clause of start_audio_download (1177-1180): one more edit_text
\* of the status message, and nothing else if that fails too
ExceptEdit(i, ok) ==
    IF ok THEN /\ msg' = [msg EXCEPT ![i] = "error"]
               /\ Finish(i, "shown")
          ELSE /\ UNCHANGED msg
               /\ Finish(i, "silent")

\* the except clauses of download_audio (1529-1537) and download_spotify_audio
\* (1638-1656): edit the status message, or else reply with a fresh message
ExceptEditOrReply(i, okEdit, okReply) ==
    IF okEdit THEN /\ msg' = [msg EXCEPT ![Target(i)] = "error"]
                   /\ Finish(i, "shown")
              ELSE /\ UNCHANGED msg
                   /\ Finish(i, IF okReply THEN "fresh" ELSE "sendfailed")

\* the platform of the URL a handler works on
Platform(i) == updates[Target(i)].url

\* how extract_audio_info ends: a dict, None after an error, None after the
\* timeout of wait_for
ProbeResults == {"info", "error", "timeout"}

\* asyncio.wait_for(loop.run_in_executor(None, ...), timeout) (1237-1242,
\* 1487-1492): on the timeout the awaiting coroutine gets TimeoutError, but
\* the call of yt-dlp goes on in its worker thread, which cannot be
\* cancelled.  spotdl is run by subprocess.run(timeout=300) (1582-1588),
\* which kills the child before it raises TimeoutExpired.
AfterWaitFor(i, res) ==
    IF res = "timeout" /\ Platform(i) # "spotify" THEN threads \cup {i} ELSE threads

\* the yt-dlp call of a worker thread left behind returns
ThreadEnd(i) ==
    /\ i \in threads
    /\ threads' = threads \ {i}
    /\ UNCHANGED <<updates, hpc, msg, hres, hfail, prefvars, notBot>>

\* a bot that downloads every link as soon as it is probed
AutoDownloadAlways(url) == TRUE

\* `if platform == 'Spotify':` (1151): Spotify links are downloaded at once,
\* with high quality, without a keyboard
AutoDownload(url) == url = "spotify"

\* extract_audio_info returns (1196-1266) a dict, or None after any error or
\* after the timeout (the Spotify branch always returns a dict, 1268-1317),
\* and start_audio_download goes on (1144-1180).  ok1: the edits of the
\* branch taken succeed; ok2: the edit of the except clause succeeds.
\*   None:    edit_text with the error (1147); the edit is inside the try.
\*   Spotify: edit_text (1153), then download_spotify_audio up to spotdl
\*            (1543-1579).  There `subprocess` is a local name, bound by the
\*            import of line 1579, so an exception raised before that line
\*            makes `except subprocess.TimeoutExpired` (1638) raise
\*            UnboundLocalError, which leaves the function and is caught by
\*            start_audio_download.
\*   else:    show_audio_quality_options (1319-1355) puts up the keyboard.
\* res = "timeout": wait_for gave up after a minute (1237-1244).
ProbeEnd(i, res, ok1, ok2) ==
    /\ hpc[i] = "probing"
    /\ updates[i].url = "spotify" => res = "info"
    /\ threads' = AfterWaitFor(i, res)
    /\ IF res # "info"
          THEN /\ hfail' = [hfail EXCEPT ![i] = TRUE]
               /\ IF ok1 THEN /\ msg' = [msg EXCEPT ![i] = "error"]
                              /\ Finish(i, "shown")
                         ELSE ExceptEdit(i, ok2)
          ELSE IF AutoDownload(updates[i].url)
          THEN IF ok1 THEN /\ msg' = [msg EXCEPT ![i] = "downloading"]
                           /\ hpc' = [hpc EXCEPT ![i] = "downloading"]
                           /\ UNCHANGED <<hres, hfail>>
                      ELSE /\ hfail' = [hfail EXCEPT ![i] = TRUE]
                           /\ ExceptEdit(i, ok2)
          ELSE /\ UNCHANGED hfail
               /\ IF ok1 THEN /\ msg' = [msg EXCEPT ![i] = "options"]
                              /\ Finish(i, "ok")
                         ELSE ExceptEdit(i, ok2)
    /\ UNCHANGED <<updates, prefvars, notBot>>

\* the call of the chat API that fails in handle_callback_query, if any: the
\* first answer (1360), the second answer (1387, 1392) or the edit that
\* follows it (1393, 1404)
CallbackFailures == {"none", "answer", "answer2", "edit"}

\* handle_callback_query (1357-1395), for a quality button up to the download
\* in download_audio (1402-1492); okEdit, okReply: the calls of the except
\* clause of download_audio succeed
HandleCallbackQuery(i, fails, okEdit, okReply) ==
    /\ Dispatchable(i)
    /\ updates[i].kind = "cb"
    /\ IF fails = "answer"
          THEN /\ Finish(i, "raised")
               /\ UNCHANGED <<msg, hfail, prefvars>>
          ELSE IF updates[i].data \in Qualities
          THEN /\ PrefSet(updates[i].user, "preferred_audio_quality", updates[i].data)
               /\ IF fails = "answer2"
                     THEN /\ Finish(i, "raised")
                          /\ UNCHANGED <<msg, hfail>>
                     ELSE IF fails = "edit"
                     THEN /\ hfail' = [hfail EXCEPT ![i] = TRUE]
                          /\ ExceptEditOrReply(i, okEdit, okReply)
                     ELSE /\ msg' = [msg EXCEPT ![Target(i)] = "downloading"]
                          /\ hpc' = [hpc EXCEPT ![i] = "downloading"]
                          /\ UNCHANGED <<hres, hfail>>
          ELSE /\ IF fails = "none"
                     THEN /\ msg' = [msg EXCEPT ![Target(i)] = "canceled"]
                          /\ Finish(i, "ok")
                     ELSE /\ UNCHANGED msg
                          /\ Finish(i, "raised")
               /\ UNCHANGED <<hfail, prefvars>>
    /\ UNCHANGED <<updates, threads, notBot>>

\* how a download ends (1484-1503, 1580-1617): a file, no file although the
\* tool reported success, an error of the tool, or the timeout
DownloadOutcomes == {"file", "nofile", "error", "timeout"}

\* a download that is taken as complete whenever the tool reported success
FileFoundUnchecked(outcome) == outcome \in {"file", "nofile"}

\* `if not downloaded_files: raise FileNotFoundError(...)` (1498-1500,
\* 1597-1599): the download counts only if the glob finds a file
FileFound(outcome) == outcome = "file"

\* the download is over and the file is sent (1510-1524, 1619-1633), or the
\* except clause reports the failure; okSend: the edits and reply_audio succeed
DownloadEnd(i, outcome, okSend, okEdit, okReply) ==
    /\ hpc[i] = "downloading"
    /\ threads' = AfterWaitFor(i, outcome)
    /\ IF FileFound(outcome) /\ okSend
          THEN /\ msg' = [msg EXCEPT ![Target(i)] = "completed"]
               /\ Finish(i, "ok")
               /\ UNCHANGED hfail
          ELSE /\ hfail' = [hfail EXCEPT ![i] = TRUE]
               /\ ExceptEditOrReply(i, okEdit, okReply)
    /\ UNCHANGED <<updates, prefvars, notBot>>

(***************************************************************************)
(* Renditions, quality buttons and the format a download asks for          *)
(*                                                                         *)
(* One URL of a permitted user, from the probe to the end of the download. *)
(* The bot never looks at the formats yt-dlp reports: the keyboard and the *)
(* download options are the same for every URL.                            *)
(***************************************************************************)
\* the formats of the URLs tried: audio-only ones (abr in kbit/s), muxed ones
\* and a video-only one (height in lines)
Universe ==
    { [kind |-> "audio", height |-> 0, abr |-> 128],
      [kind |-> "audio", height |-> 0, abr |-> 256],
      [kind |-> "muxed", height |-> 480, abr |-> 96],
      [kind |-> "muxed", height |-> 1080, abr |-> 128],
      [kind |-> "video", height |-> 1080, abr |-> 0] }

RenditionLists == SUBSET Universe

TierNames == {"high", "medium", "low"}

NoTiers == <<>>

NoFormat == [kind |-> "none", height |-> 0, abr |-> 0]

IdleTiers ==
    /\ renditions = {}
    /\ tpc = "idle"
    /\ offered = {}
    /\ tiers = NoTiers

\* a permitted user has sent a supported URL
InitTiers ==
    /\ renditions \in RenditionLists
    /\ tpc = "url"
    /\ offered = {}
    /\ tiers = NoTiers

OfKind(rs, kind) == {r \in rs : r.kind = kind}

\* the best of a set of formats of one kind, as yt-dlp ranks them
Best(rs) ==
    CHOOSE r \in rs : \A o \in rs : r.height > o.height \/ (r.height = o.height /\ r.abr >= o.abr)

\* 'format': 'bestaudio/best' (line 1423): the best audio-only format, else
\* the best format with both streams; yt-dlp lets `best` take a format with
\* one stream when all the formats of the URL are video-only
SelectFormat(rs) ==
    IF OfKind(rs, "audio") # {} THEN Best(OfKind(rs, "audio"))
    ELSE IF OfKind(rs, "muxed") # {} THEN Best(OfKind(rs, "muxed"))
    ELSE IF rs # {} THEN Best(rs)
    ELSE NoFormat

\* a quality_map in which the tiers are swapped
PreferredQualitySwapped(quality) ==
    IF quality = "high" THEN 128 ELSE IF quality = "low" THEN 320 ELSE 192

\* quality_map.get(quality, '192') (lines 1414-1428), in kbit/s
PreferredQuality(quality) ==
    IF quality = "high" THEN 320 ELSE IF quality = "low" THEN 128 ELSE 192

\* the keyboard of show_audio_quality_options (1347-1352): three buttons
\* aq:<tier>:<url>, whatever the info says
QualityButtons == {[kind |-> "audio", tier |-> t] : t \in TierNames}

\* what download_audio asks yt-dlp for when a button is pressed (1414-1430)
DownloadOptions(rs, tier) ==
    [format |-> SelectFormat(rs), preferredquality |-> PreferredQuality(tier)]

\* extract_audio_info (1234-1266) and start_audio_download (1144-1175).
\* yt-dlp raises when it finds no format at all, and for any other reason
\* (ok = FALSE); extract_audio_info then returns None and the error is
\* shown.  Otherwise the keyboard is put up.
TierProbe(ok) ==
    /\ tpc = "url"
    /\ IF ok /\ renditions # {}
          THEN /\ tpc' = "options"
               /\ offered' = QualityButtons
               /\ tiers' = [t \in TierNames |-> DownloadOptions(renditions, t)]
          ELSE /\ tpc' = "error"
               /\ UNCHANGED <<offered, tiers>>
    /\ UNCHANGED <<renditions, notTiers>>

\* a quality button is pressed and download_audio runs (1402-1524): yt-dlp
\* downloads the format and FFmpegExtractAudio transcodes its audio stream,
\* which fails when the format has none; ok: nothing else fails
TierPress(b, ok) ==
    /\ tpc = "options"
    /\ b \in offered
    /\ tpc' = IF ok /\ tiers[b.tier].format.kind \in {"audio", "muxed"}
                 THEN "delivered" ELSE "failed"
    /\ offered' = {b}
    /\ UNCHANGED <<renditions, tiers, notTiers>>

\* the user sends the next URL
TierNextUrl(rs) ==
    /\ tpc \in {"options", "error", "delivered", "failed"}
    /\ renditions' = rs
    /\ tpc' = "url"
    /\ offered' = {}
    /\ tiers' = NoTiers
    /\ UNCHANGED notTiers

(***************************************************************************)
(* TranslationService                                                      *)
(*                                                                         *)
(* saved_translations is a dict from source text to a dict from language   *)
(* tag to translated string; the file holds its JSON document.  The remote *)
(* API is free to answer the same request differently each time.           *)
(***************************************************************************)
Texts == {"Denied", "Hello"}

Langs == {"de", "fr"}

\* what response.choices[0].message.content can be: a translation or nothing
RemoteAnswers == {"x", "y", ""}

ApiKeys == {"", "key"}

NoTranslation == "None"

NoTrCall == [text |-> "", lang |-> "", result |-> "", remote |-> FALSE]

NoFirst == [p \in Texts \X Langs |-> NoTranslation]

IdleTrans ==
    /\ api_key = ""
    /\ saved_translations = EmptyDict
    /\ translations_file = NoFile
    /\ trcall = NoTrCall
    /\ trfirst = NoFirst

\* load_translations, lines 517-522
LoadTranslations(file) == IF file.exists THEN JsonLoad(file.doc) ELSE EmptyDict

\* save_translations, lines 524-527: the file after the dict is dumped to it
SaveTranslations(tr) == [exists |-> TRUE, doc |-> JsonDump(tr)]

\* TranslationService(api_key, translations_file), no file yet
InitTrans ==
    /\ api_key \in ApiKeys
    /\ translations_file = NoFile
    /\ saved_translations = LoadTranslations(NoFile)
    /\ trcall = NoTrCall
    /\ trfirst = NoFirst

\* a lookup that never finds anything
InCacheNever(tr, text, lang) == FALSE

\* line 535: the translation is in the dict
InCache(tr, text, lang) == text \in DOMAIN tr /\ lang \in DOMAIN tr[text]

\* lines 561-563: the dict after the translation is stored
StoreTranslation(tr, text, lang, translated) ==
    LET t1 == IF text \in DOMAIN tr THEN tr ELSE (text :> EmptyDict) @@ tr
    IN [t1 EXCEPT ![text] = (lang :> translated) @@ t1[text]]

\* translate_text(text, lang), lines 529-570; it never suspends, so it is
\* one step.  raised: the remote call raises; answer: what it returns.
TranslateText(text, lang, raised, translated) ==
    /\ IF api_key = ""
         THEN /\ trcall' = [text |-> text, lang |-> lang, result |-> text, remote |-> FALSE]
              /\ UNCHANGED <<saved_translations, translations_file, trfirst>>
         ELSE IF InCache(saved_translations, text, lang)
         THEN /\ trcall' = [text |-> text, lang |-> lang,
                            result |-> saved_translations[text][lang], remote |-> FALSE]
              /\ UNCHANGED <<saved_translations, translations_file, trfirst>>
         ELSE IF raised \/ translated = ""
         THEN /\ trcall' = [text |-> text, lang |-> lang, result |-> text, remote |-> TRUE]
              /\ UNCHANGED <<saved_translations, translations_file, trfirst>>
         ELSE /\ saved_translations' = StoreTranslation(saved_translations, text, lang, translated)
              /\ translations_file' = SaveTranslations(saved_translations')
              /\ trcall' = [text |-> text, lang |-> lang, result |-> translated, remote |-> TRUE]
              /\ trfirst' = IF trfirst[<<text, lang>>] = NoTranslation
                              THEN [trfirst EXCEPT ![<<text, lang>>] = translated]
                              ELSE trfirst
    /\ UNCHANGED <<api_key, notTrans>>

\* the process restarts: a new TranslationService loads the file (line 515)
TransRestart ==
    /\ saved_translations' = LoadTranslations(translations_file)
    /\ trcall' = NoTrCall
    /\ UNCHANGED <<api_key, translations_file, trfirst, notTrans>>

(***************************************************************************)
(* The dashboard in cloud mode: Start Bot, Stop Bot, and the run loop of   *)
(* TelegramYTDLBot.start                                                   *)
(*                                                                         *)
(* Every Start Bot creates a bot instance on a thread of its own.  An      *)
(* instance polls Telegram from start_polling until it leaves the loop.    *)
(***************************************************************************)
BotInstances == 1..MaxBots

\* the finally block of start, in order
ShutdownSteps == <<"updater.stop", "application.stop", "application.shutdown">>

NoBot == [pc |-> "none", attempted |-> {}, raised |-> {}]

\* the dashboard is opened with no flag file and no bot: the button is Start Bot
InitCloud ==
    /\ flag_file = FALSE
    /\ bot_running = FALSE
    /\ bots = [b \in BotInstances |-> NoBot]

\* the Start Bot button (shown when bot_running is False): start_bot_in_cloud
\* writes the flag file and run_bot_directly starts a bot thread
StartBotInCloud(b) ==
    /\ ~bot_running
    /\ bots[b].pc = "none"
    /\ \A c \in BotInstances : c < b => bots[c].pc # "none"
    /\ flag_file' = TRUE
    /\ bots' = [bots EXCEPT ![b].pc = "initialize"]
    /\ bot_running' = TRUE
    /\ UNCHANGED notCloud

\* the Stop Bot button (shown when bot_running is True): stop_bot_in_cloud
\* removes the flag file
StopBotInCloud ==
    /\ bot_running
    /\ flag_file' = FALSE
    /\ bot_running' = FALSE
    /\ UNCHANGED <<bots, notCloud>>

\* start(): initialize, application.start, updater.start_polling.  res:
\* "ok"; "refused" (initialize returns False before the application is
\* built); "error" (an exception once the application is built)
BotStart(b, res) ==
    /\ bots[b].pc = "initialize"
    /\ bots' = [bots EXCEPT ![b].pc = CASE res = "ok" -> "polling"
                                        [] res = "refused" -> "ended"
                                        [] OTHER -> "shutdown1"]
    /\ UNCHANGED <<flag_file, bot_running, notCloud>>

\* the run loop wakes from its sleep and finds the flag file gone
BotCheckFlag(b) ==
    /\ bots[b].pc = "polling"
    /\ ~flag_file
    /\ bots' = [bots EXCEPT ![b].pc = "shutdown1"]
    /\ UNCHANGED <<flag_file, bot_running, notCloud>>

StepAt(pc) == CASE pc = "shutdown1" -> 1 [] pc = "shutdown2" -> 2 [] OTHER -> 3

\* a finally block with one try around all three steps
AfterStepUnguarded(pc, raises) ==
    IF raises \/ pc = "shutdown3" THEN "ended"
    ELSE IF pc = "shutdown1" THEN "shutdown2" ELSE "shutdown3"

\* every step of the finally block has a try/except Exception of its own
AfterStep(pc, raises) ==
    CASE pc = "shutdown1" -> "shutdown2"
      [] pc = "shutdown2" -> "shutdown3"
      [] OTHER -> "ended"

\* one step of the finally block of start, lines 959-983
ShutdownStep(b, raises) ==
    /\ bots[b].pc \in {"shutdown1", "shutdown2", "shutdown3"}
    /\ LET step == ShutdownSteps[StepAt(bots[b].pc)] IN
        bots' = [bots EXCEPT ![b] =
                    [pc |-> AfterStep(bots[b].pc, raises),
                     attempted |-> @.attempted \cup {step},
                     raised |-> IF raises THEN @.raised \cup {step} ELSE @.raised]]
    /\ UNCHANGED <<flag_file, bot_running, notCloud>>

\* the steps of the bot threads
BotProgress ==
    \E b \in BotInstances :
        \/ \E res \in {"ok", "refused", "error"} : BotStart(b, res)
        \/ BotCheckFlag(b)
        \/ \E raises \in BOOLEAN : ShutdownStep(b, raises)

(***************************************************************************)
(* Temporary files of download_audio and download_spotify_audio            *)
(*                                                                         *)
(* The handlers run one after the other, so the calls do too; call n is    *)
(* the n-th one made.  download_audio writes one file named after the      *)
(* call, download_spotify_audio a directory of its own.                    *)
(***************************************************************************)
Calls == 1..MaxUpdates

NoDownload == [n |-> 0, kind |-> "none", pc |-> "returned"]

InitTemp ==
    /\ temp_dir = {}
    /\ dl = NoDownload
    /\ workers = {}

\* what call n has put under storage/temp
Mine(n) == {f \in temp_dir : f[1] = n}

\* the finally of download_spotify_audio, lines 1658-1665
RmTree(n) == temp_dir \ Mine(n)

\* the call starts, up to the start of the tool: the first edit of the
\* status message (lines 1404, 1545) and, for Spotify, output_dir.mkdir
\* (line 1553) and the second edit (line 1573).  A failing edit raises: the
\* call returns, for Spotify after the finally has removed output_dir.
DownloadBegin(kind, okEdit, okEdit2) ==
    /\ dl.pc = "returned"
    /\ dl.n < MaxUpdates
    /\ LET n == dl.n + 1
           started == okEdit /\ (kind = "yt" \/ okEdit2)
       IN /\ dl' = [n |-> n, kind |-> kind, pc |-> IF started THEN "tool" ELSE "returned"]
          /\ temp_dir' = IF kind = "spotify" /\ started
                           THEN temp_dir \cup {<<n, "dir">>}
                           ELSE temp_dir
    /\ UNCHANGED <<workers, notTemp>>

\* the tool ends (yt-dlp in a worker thread under wait_for, lines 1484-1494;
\* spotdl under subprocess.run(timeout=300), lines 1580-1595), then the glob
\* for the result (lines 1498-1500, 1597-1599).  Without a file the call
\* raises and returns once the failure is reported.  partial: a tool that
\* did not finish has left a part of the download behind.
ToolEnd(outcome, partial) ==
    /\ dl.pc = "tool"
    /\ LET left == IF outcome = "file" THEN {<<dl.n, "file">>}
                   ELSE IF partial /\ outcome # "nofile" THEN {<<dl.n, "part">>}
                   ELSE {}
       IN IF dl.kind = "yt"
            THEN /\ temp_dir' = temp_dir \cup left
                 /\ workers' = IF outcome = "timeout" THEN workers \cup {dl.n} ELSE workers
            ELSE /\ temp_dir' = IF outcome = "file" THEN temp_dir \cup left ELSE RmTree(dl.n)
                 /\ workers' = workers
    /\ dl' = [dl EXCEPT !.pc = IF outcome = "file" THEN "upload" ELSE "returned"]
    /\ UNCHANGED notTemp

\* the upload: the edit to "Uploading", reply_audio, the clean-up and the
\* last edit (lines 1510-1524, 1618-1631).  download_audio unlinks its file
\* after reply_audio only; download_spotify_audio removes output_dir there
\* and, whatever happened, in its finally.
Upload(okEdit, okSend) ==
    /\ dl.pc = "upload"
    /\ temp_dir' = IF dl.kind = "yt"
                     THEN IF okEdit /\ okSend THEN temp_dir \ {<<dl.n, "file">>} ELSE temp_dir
                     ELSE RmTree(dl.n)
    /\ dl' = [dl EXCEPT !.pc = "returned"]
    /\ UNCHANGED <<workers, notTemp>>

\* a yt-dlp thread that outlived its timeout ends; finished is whether it
\* completed the download
WorkerEnd(n, finished) ==
    /\ n \in workers
    /\ workers' = workers \ {n}
    /\ temp_dir' = IF finished THEN temp_dir \cup {<<n, "file">>} ELSE temp_dir
    /\ UNCHANGED <<dl, notTemp>>

(***************************************************************************)
(* Updater: the daily yt-dlp update                                        *)
(*                                                                         *)
(* The clock advances in seconds.  A call_later handle fires when its      *)
(* delay has run out and creates the task of update().                     *)
(***************************************************************************)
TimesOfDay == [hour : 0..23, minute : 0..59, second : 0..59]

\* the clock before any Updater exists
IdleUpdater ==
    /\ now = [hour |-> 0, minute |-> 0, second |-> 0]
    /\ upc = "new"
    /\ updating = FALSE
    /\ timers = <<>>
    /\ utasks = 0

\* the bot is started at any time of day; initialize has not yet made the Updater
InitUpdater ==
    /\ now \in TimesOfDay
    /\ upc = "new"
    /\ updating = FALSE
    /\ timers = <<>>
    /\ utasks = 0

\* a test that takes 04:20 itself for a time of the same day
NextDayStrict(t) == t.hour > 4 \/ (t.hour = 4 /\ t.minute > 20)

\* line 591: `now.hour > target_hour or (now.hour == target_hour and
\* now.minute >= target_minute)`
NextDay(t) == t.hour > 4 \/ (t.hour = 4 /\ t.minute >= 20)

\* lines 591-600: the delay computed at time t
Seconds(t) ==
    IF NextDay(t)
        THEN (24 - t.hour + 4) * 3600 + (20 - t.minute) * 60 - t.second
        ELSE (4 - t.hour) * 3600 + (20 - t.minute) * 60 - t.second

\* _schedule_next_update, lines 585-605: the handles after call_later
ScheduleNextUpdate == Append(timers, Seconds(now))

\* Updater(enabled), lines 574-583
UpdaterInit(enabled) ==
    /\ upc = "new"
    /\ upc' = IF enabled THEN "on" ELSE "off"
    /\ timers' = IF enabled THEN ScheduleNextUpdate ELSE timers
    /\ UNCHANGED <<now, updating, utasks, notUpdater>>

\* a second passes; a handle that is due fires first
ClockTick ==
    /\ \A k \in 1..Len(timers) : timers[k] > 0
    /\ now' = IF now.second < 59 THEN [now EXCEPT !.second = @ + 1]
              ELSE IF now.minute < 59 THEN [now EXCEPT !.second = 0, !.minute = @ + 1]
              ELSE [hour |-> (now.hour + 1) % 24, minute |-> 0, second |-> 0]
    /\ timers' = [k \in 1..Len(timers) |-> timers[k] - 1]
    /\ UNCHANGED <<upc, updating, utasks, notUpdater>>

\* a handle is due: `lambda: asyncio.create_task(self.update())`, line 604
TimerFires(k) ==
    /\ k \in 1..Len(timers)
    /\ timers[k] <= 0
    /\ timers' = Without(timers, k)
    /\ utasks' = utasks + 1
    /\ UNCHANGED <<now, upc, updating, notUpdater>>

\* update() starts, lines 609-612: `if self.updating: return`, else
\* `self.updating = True` and pip is started; the flag is set either way
UpdateStart ==
    /\ utasks > 0
    /\ utasks' = utasks - 1
    /\ updating' = TRUE
    /\ UNCHANGED <<now, upc, timers, notUpdater>>

\* an update that schedules the next one only when it succeeded
ReschedulesOnSuccess(ok) == ok

\* lines 630-634: except Exception logs, the finally schedules in any case
Reschedules(ok) == TRUE

\* pip ends (return code 0 or not, or an exception), lines 622-634
UpdateEnd(ok) ==
    /\ updating
    /\ updating' = FALSE
    /\ timers' = IF Reschedules(ok) THEN ScheduleNextUpdate ELSE timers
    /\ UNCHANGED <<now, upc, utasks, notUpdater>>

(***************************************************************************)
(* handle_callback_query on any payload                                    *)
(*                                                                         *)
(* A payload is a sequence of pieces: the prefix "aq:", the separator ":"  *)
(* and words.  Telegram hands the bot whatever data the client sends.      *)
(***************************************************************************)
Payloads ==
    { <<"aq:", "high", ":", "url">>, <<"aq:", "low", ":", "url">>,
      <<"aq:", "high", ":", "url", ":", "x">>,
      <<"aq:", "high">>, <<"aq:">>, <<"aq:", "url">>,
      <<"cancel">>, <<"cancel", "x">>, <<"x">>, <<"high", ":", "url">> }

NoQuery == [user |-> 0, data |-> <<>>, shown |-> "none", wrote |-> FALSE, download |-> FALSE]

InitCallback == cbq = NoQuery

\* str.startswith(CallbackPrefix.AUDIO_QUALITY)
StartsWithPrefix(data) == data # <<>> /\ data[1] = "aq:"

\* str.split(":", 1) of a sequence of pieces
SplitOnce(rest) ==
    IF \E k \in 1..Len(rest) : rest[k] = ":"
        THEN LET k == CHOOSE k \in 1..Len(rest) : rest[k] = ":" /\ \A j \in 1..(k - 1) : rest[j] # ":"
             IN <<SubSeq(rest, 1, k - 1), SubSeq(rest, k + 1, Len(rest))>>
        ELSE <<rest>>

\* a handler that takes a payload without a URL for a selection
IsSelectionAnyParts(parts) == TRUE

\* lines 1372-1375: `if len(parts) != 2:` the selection is invalid
IsSelection(parts) == Len(parts) = 2

\* handle_callback_query, lines 1357-1395, for the payload data of user u up
\* to the call of download_audio; ok: the calls of the chat API succeed (the
\* first answer apart, which comes before everything else)
HandleCallbackData(u, data, okAnswer, ok) ==
    LET query == [user |-> u, data |-> data, shown |-> "none", wrote |-> FALSE, download |-> FALSE]
    IN
    /\ IF ~okAnswer
          THEN /\ cbq' = query
               /\ UNCHANGED prefvars
          ELSE IF StartsWithPrefix(data)
          THEN LET parts == SplitOnce(Tail(data)) IN
               IF ~IsSelection(parts)
                  THEN /\ cbq' = [query EXCEPT !.shown = IF ok THEN "invalid" ELSE "none"]
                       /\ UNCHANGED prefvars
                  ELSE /\ PrefSet(u, "preferred_audio_quality", parts[1])
                       /\ cbq' = [query EXCEPT !.wrote = TRUE, !.download = ok,
                                               !.shown = IF ok THEN "starting" ELSE "none"]
          ELSE /\ cbq' = [query EXCEPT !.shown = IF ~ok THEN "none"
                                                 ELSE IF data = <<"cancel">> THEN "canceled"
                                                 ELSE "unknown"]
               /\ UNCHANGED prefvars
    /\ UNCHANGED notCallback

(***************************************************************************)
(* Specifications                                                          *)
(***************************************************************************)
IdleAux == IdleTrans /\ InitCloud /\ InitTemp /\ IdleUpdater /\ InitCallback

IdleCore == InitQueue /\ IdleEnv /\ InitPrefs /\ IdleBot /\ IdleTiers

InitSpecQueue == InitQueue /\ IdleEnv /\ InitPrefs /\ IdleBot /\ IdleTiers /\ IdleAux

NextQueue ==
    \/ \E callable \in BOOLEAN : Add(callable)
    \/ QueueProgress

SpecQueue == InitSpecQueue /\ [][NextQueue]_vars

\* the event loop keeps running the tasks that are ready, and every job
\* terminates: it does not go on suspending for ever
SpecQueueFair ==
    /\ SpecQueue
    /\ WF_vars(QueueProgress)
    /\ \A t \in Tasks : SF_vars(JobReturn(t) \/ JobRaise(t))

InitSpecEnv == InitEnv /\ InitQueue /\ InitPrefs /\ IdleBot /\ IdleTiers /\ IdleAux

NextEnv ==
    \/ EnvironmentInit
    \/ \E u \in UserIds : AskWhitelisted(u)

SpecEnv == InitSpecEnv /\ [][NextEnv]_vars

InitSpecPrefs == InitPrefs /\ InitQueue /\ IdleEnv /\ IdleBot /\ IdleTiers /\ IdleAux

NextPrefs ==
    \/ \E u \in PrefUsers, k \in PrefKeys, v \in PrefValues : SetUserPreference(u, k, v)
    \/ \E u \in PrefUsers, k \in PrefKeys : GetUserPreference(u, k)
    \/ Restart

SpecPrefs == InitSpecPrefs /\ [][NextPrefs]_vars

InitSpecTiers == InitTiers /\ InitQueue /\ IdleEnv /\ InitPrefs /\ IdleBot /\ IdleAux

NextTiers ==
    \/ \E ok \in BOOLEAN : TierProbe(ok)
    \/ \E b \in QualityButtons, ok \in BOOLEAN : TierPress(b, ok)
    \/ \E rs \in RenditionLists : TierNextUrl(rs)

SpecTiers == InitSpecTiers /\ [][NextTiers]_vars

Init == InitBot /\ InitPrefs /\ InitQueue /\ IdleTiers /\ IdleAux

Next ==
    \/ \E u \in BotUsers, url \in UrlKinds : ReceiveUrl(u, url)
    \/ \E u \in BotUsers, m \in Updates, b \in Buttons : Press(u, m, b)
    \/ \E i \in Updates, ok \in BOOLEAN : HandleUrlMessage(i, ok)
    \/ \E i \in Updates, res \in ProbeResults, ok1 \in BOOLEAN, ok2 \in BOOLEAN :
          ProbeEnd(i, res, ok1, ok2)
    \/ \E i \in Updates : ThreadEnd(i)
    \/ \E i \in Updates, fails \in CallbackFailures, okEdit \in BOOLEAN, okReply \in BOOLEAN :
          HandleCallbackQuery(i, fails, okEdit, okReply)
    \/ \E i \in Updates, outcome \in DownloadOutcomes, okSend \in BOOLEAN,
          okEdit \in BOOLEAN, okReply \in BOOLEAN :
          DownloadEnd(i, outcome, okSend, okEdit, okReply)

Spec == Init /\ [][Next]_vars

InitSpecTrans == InitTrans /\ IdleCore /\ InitCloud /\ InitTemp /\ IdleUpdater /\ InitCallback

NextTrans ==
    \/ \E text \in Texts, lang \in Langs, raised \in BOOLEAN, translated \in RemoteAnswers :
          TranslateText(text, lang, raised, translated)
    \/ TransRestart

SpecTrans == InitSpecTrans /\ [][NextTrans]_vars

InitSpecCloud == InitCloud /\ IdleCore /\ IdleTrans /\ InitTemp /\ IdleUpdater /\ InitCallback

NextCloud ==
    \/ \E b \in BotInstances : StartBotInCloud(b)
    \/ StopBotInCloud
    \/ BotProgress

SpecCloud == InitSpecCloud /\ [][NextCloud]_vars

InitSpecTemp == InitTemp /\ IdleCore /\ IdleTrans /\ InitCloud /\ IdleUpdater /\ InitCallback

NextTemp ==
    \/ \E kind \in {"yt", "spotify"}, okEdit \in BOOLEAN, okEdit2 \in BOOLEAN :
          DownloadBegin(kind, okEdit, okEdit2)
    \/ \E outcome \in {"file", "nofile", "error", "timeout"}, partial \in BOOLEAN :
          ToolEnd(outcome, partial)
    \/ \E okEdit \in BOOLEAN, okSend \in BOOLEAN : Upload(okEdit, okSend)
    \/ \E n \in Calls, finished \in BOOLEAN : WorkerEnd(n, finished)

SpecTemp == InitSpecTemp /\ [][NextTemp]_vars

InitSpecUpdater == InitUpdater /\ IdleCore /\ IdleTrans /\ InitCloud /\ InitTemp /\ InitCallback

NextUpdater ==
    \/ \E enabled \in BOOLEAN : UpdaterInit(enabled)
    \/ ClockTick
    \/ \E k \in 1..2 : TimerFires(k)
    \/ UpdateStart
    \/ \E ok \in BOOLEAN : UpdateEnd(ok)

SpecUpdater == InitSpecUpdater /\ [][NextUpdater]_vars

InitSpecCallback == InitCallback /\ IdleCore /\ IdleTrans /\ InitCloud /\ InitTemp /\ IdleUpdater

NextCallback ==
    \E u \in BotUsers, data \in Payloads, okAnswer \in BOOLEAN, ok \in BOOLEAN :
        HandleCallbackData(u, data, okAnswer, ok)

SpecCallback == InitSpecCallback /\ [][NextCallback]_vars

\* the bot threads keep running: a sleep of the run loop ends, and so does
\* every call of the shutdown sequence
SpecCloudFair == SpecCloud /\ \A b \in BotInstances : WF_vars(BotCheckFlag(b) \/ \E raises \in BOOLEAN : ShutdownStep(b, raises))

(***************************************************************************)
(* Claims about the Queue                                                  *)
(***************************************************************************)

\* C1: the queue never runs two jobs concurrently: at any instant at most one
\* job submitted through Queue.add is between its start and its end, whatever
\* the interleaving of add calls with the awaits of the running job.
C1_NoTwoJobsOverlap == Cardinality({j \in Tasks : Active(j)}) <= 1

\* a job is suspended at an await while a later add has queued another job
\* and that add's bump task has already come and gone
C1_Witness ==
    \E a, b \in Tasks :
        /\ jst[a] = "suspended"
        /\ jst[b] = "queued"
        /\ bpc[b] = "done"

\* C2: strict FIFO: of two jobs added in the order a, b, job b has not started
\* before job a has finished.
C2_Fifo ==
    \A a, b \in Tasks :
        (a < b /\ jst[a] # "none" /\ jst[b] \in {"started", "suspended", "done", "failed"})
            => Finished(a)

\* both jobs were queued together, and the later one runs after the earlier ended
C2_Witness ==
    \E a, b \in Tasks :
        /\ a < b
        /\ Finished(a)
        /\ Active(b)
        /\ bpc[b] = "done"

\* C3: a job that raises does not stop the drain loop: every job queued
\* behind a failed one is still run to its end.
C3_FailureDoesNotStopQueue ==
    \A a, b \in Tasks :
        (jst[a] = "failed" /\ jst[b] = "queued") ~> Finished(b)

\* job a raised, and job b, added after it, completed
C3_Witness ==
    \E a, b \in Tasks :
        /\ a < b
        /\ jst[a] = "failed"
        /\ jst[b] = "done"

InDrain(t) == bpc[t] \in {"loop", "run", "finally"}

\* C4: at most one bump invocation is between setting running to True and
\* resetting it to False.
C4_OneDrainLoop == Cardinality({t \in Tasks : InDrain(t)}) <= 1

\* a second bump found the flag set and returned, leaving its job to the
\* drain loop that is running
C4_Witness ==
    \E t, s \in Tasks :
        /\ t # s
        /\ bpc[t] = "run"
        /\ bpc[s] = "done"
        /\ jst[s] = "queued"

\* C22: no job is stranded: with every job terminating, every job passed to
\* Queue.add is eventually popped and run to its end, exactly once (it holds
\* one place in the list until it is popped and none afterwards, and once
\* ended it is not started again); and whenever no bump task is running or
\* pending the queue list is empty and running is False.
C22_NoJobStranded ==
    /\ \A j \in Tasks : (jst[j] = "queued") ~> Finished(j)
    /\ [](\A j \in Tasks :
            Cardinality({k \in 1..Len(queue) : queue[k] = j})
                = IF jst[j] = "queued" THEN 1 ELSE 0)
    /\ [][\A j \in Tasks : Finished(j) => jst'[j] = jst[j]]_vars
    /\ []((\A t \in Tasks : bpc[t] \in {"none", "done"}) => (queue = <<>> /\ ~running))

\* all the jobs added have ended, one of them by raising, and no bump task
\* is left
C22_Witness ==
    /\ nadds = MaxAdds
    /\ \A t \in Tasks : bpc[t] \in {"none", "done"}
    /\ \A j \in Tasks : Finished(j)
    /\ \E j \in Tasks : jst[j] = "failed"

(***************************************************************************)
(* Claims about the allow-list                                             *)
(***************************************************************************)

\* the ids the variable WHITELISTED_IDS supplies
SuppliedIds ==
    {StripToInt(whitelist_str.parts[i]) :
        i \in {k \in 1..Len(whitelist_str.parts) : StripIsDigit(whitelist_str.parts[k])}}

\* C8: the allow-list decision: with an empty supplied set every user is
\* permitted, whether or not an admin id is configured; otherwise a user is
\* permitted exactly when their id is in the supplied set or is the admin id.
C8_AllowListDecision ==
    (envpc = "ready" /\ answer \in {"yes", "no"}) =>
        ((answer = "yes") <=>
            IF SuppliedIds = {} THEN TRUE
            ELSE (asked \in SuppliedIds \/ (ADMIN_ID # NoAdmin /\ asked = ADMIN_ID)))

\* C27: for every WHITELISTED_IDS value that is a comma-separated list of
\* one or more decimal user ids (a single id included) or a JSON array of
\* integers, Environment yields a list holding exactly those ids and the
\* admin id, and is_whitelisted admits exactly those users.
C27_WhitelistParsed ==
    LET parts == whitelist_str.parts
        wellFormed == Len(parts) >= 1 /\ \A k \in 1..Len(parts) : StripIsDigit(parts[k])
        admitted == SuppliedIds \cup (IF AdminSet(ADMIN_ID) THEN {ADMIN_ID} ELSE {})
    IN (envpc # "unset" /\ wellFormed) =>
          /\ envpc = "ready"
          /\ WHITELISTED_IDS.kind = "list"
          /\ {WHITELISTED_IDS.items[k] : k \in 1..Len(WHITELISTED_IDS.items)} = admitted
          /\ answer # "none" => (answer = IF asked \in admitted THEN "yes" ELSE "no")

(***************************************************************************)
(* Claims about the preferences                                            *)
(***************************************************************************)

\* C10: round trip: after set_user_preference(u, k, v) has completed,
\* get_user_preference(u, k) returns v, in the same process and in a new
\* UserPreferences that loads the persisted document.
C10_RoundTrip ==
    last # NoCall =>
        /\ GetPref(preferences, last.u, last.k, NoValue) = last.v
        /\ GetPref(LoadPreferences(prefs_file), last.u, last.k, NoValue) = last.v
        /\ (got.u = last.u /\ got.k = last.k) => got.v = last.v

\* the value set for user 12 was read back after a restart
C10_Witness ==
    /\ since = "restarted"
    /\ last.u = 12
    /\ got = last

\* C11: write-through: after every completed set_user_preference the
\* persisted document is the dump of the mapping in memory, and loading it
\* gives that mapping.
C11_WriteThrough ==
    last # NoCall =>
        /\ prefs_file.exists
        /\ prefs_file.doc = JsonDump(preferences)
        /\ LoadPreferences(prefs_file) = preferences

\* a sequence of sets: both users have both keys in memory, the last call
\* was a set
C11_Witness ==
    /\ since = "set"
    /\ \A u \in PrefUsers :
          /\ IntToStr(u) \in DOMAIN preferences
          /\ DOMAIN preferences[IntToStr(u)] = PrefKeys

\* C29: set_user_preference(u, k, v) changes only the entry (u, k): for
\* every other user and every other key of u, get_user_preference returns
\* the same value as before the call, from memory and from the persisted
\* document.
C29_OnlyEntryChanged ==
    [][\A u \in PrefUsers, k \in PrefKeys :
          (\E v \in PrefValues : SetUserPreference(u, k, v)) =>
              \A u2 \in PrefUsers, k2 \in PrefKeys :
                  <<u2, k2>> # <<u, k>> =>
                      /\ GetPref(preferences', u2, k2, NoValue)
                            = GetPref(preferences, u2, k2, NoValue)
                      /\ GetPref(LoadPreferences(prefs_file'), u2, k2, NoValue)
                            = GetPref(LoadPreferences(prefs_file), u2, k2, NoValue)]_vars

\* user 1 has one key at "low" and the other at "high", user 12 one key at
\* "medium"; the last call changed the format of user 1
C29_Witness ==
    /\ last = [u |-> 1, k |-> "preferred_format", v |-> "high"]
    /\ GetPref(preferences, 1, "preferred_audio_quality", NoValue) = "low"
    /\ GetPref(preferences, 12, "preferred_format", NoValue) = "medium"
    /\ GetPref(LoadPreferences(prefs_file), 12, "preferred_audio_quality", NoValue) = NoValue

(***************************************************************************)
(* Claims about the bot                                                    *)
(***************************************************************************)

Permitted(u) == IsWhitelisted(WHITELISTED_IDS, u) = "yes"

\* the flow of status message m was superseded or cancelled before update i:
\* its user sent another URL that got a status message of its own, or a
\* cancel button of m was handled
Stale(i) ==
    LET m == updates[i].msg IN
        \/ \E j \in (m + 1)..(i - 1) :
              /\ updates[j].kind = "url"
              /\ updates[j].user = updates[m].user
              /\ msg[j] # "none"
        \/ \E j \in 1..(i - 1) :
              /\ updates[j].kind = "cb"
              /\ updates[j].msg = m
              /\ updates[j].data = "cancel"
              /\ hres[j] = "ok"

\* C6: a button press that refers to a flow that was superseded by a new URL
\* message or cancelled does not start a download and does not change any
\* state.
C6_StalePressRejected ==
    \A i \in 1..Len(updates) :
        (updates[i].kind = "cb" /\ Stale(i)) =>
            /\ ~InJob(i)
            /\ ~(last.u = updates[i].user /\ last.v = updates[i].data)

\* C7: every handler that ended after a failed probe or download showed the
\* error: it edited the status message, or it sent a fresh message when the
\* edit failed (the send itself may fail).
C7_FailureShown ==
    \A i \in 1..Len(updates) :
        (hpc[i] = "done" /\ hfail[i]) => hres[i] \in {"shown", "fresh", "sendfailed"}

\* C9: a user who is not permitted causes no probe, no download and no
\* preference write, by a URL message or by a button press.
C9_NotPermittedNoEffect ==
    \A i \in 1..Len(updates) :
        ~Permitted(updates[i].user) =>
            /\ ~InJob(i)
            /\ IntToStr(updates[i].user) \notin DOMAIN preferences

\* a cancel button of status message m was handled, answer and edit
\* included, before update i
CancelledBefore(m, i) ==
    \E j \in 1..(i - 1) :
        /\ updates[j].kind = "cb"
        /\ updates[j].msg = m
        /\ updates[j].data = "cancel"
        /\ hres[j] = "ok"

\* C12: the handler of a cancel press starts no download, and no download
\* is started afterwards by a press on the keyboard of the cancelled flow.
C12_CancelEndsFlow ==
    \A i \in 1..Len(updates) :
        updates[i].kind = "cb" =>
            /\ updates[i].data = "cancel" => ~InJob(i)
            /\ CancelledBefore(updates[i].msg, i) => ~InJob(i)

\* C13: when the cancel of a user arrives while that user's download is
\* executing, the download delivers no file and does not update the status
\* message when it completes.
C13_CancelDiscardsResult ==
    \A i, j \in 1..Len(updates) :
        (/\ updates[j].kind = "cb"
         /\ updates[j].data = "cancel"
         /\ updates[j].during = i
         /\ updates[j].user = updates[i].user
         /\ updates[j].msg = Target(i)
         /\ hpc[i] = "done")
        => hres[i] \notin {"ok", "shown"}

\* C14: a button press of another user that arrives while a user's job is
\* executing is answered before that job finishes.
C14_PressAnsweredDuringJob ==
    \A i, j \in 1..Len(updates) :
        (/\ updates[j].kind = "cb"
         /\ updates[j].during = i
         /\ updates[j].user # updates[i].user
         /\ hpc[i] = "done")
        => hpc[j] # "pending"

\* C15: once the handler of a probe or download that timed out has ended,
\* the timed-out work is no longer executing, and no job executes alongside it.
C15_TimeoutCancels ==
    \A i \in threads :
        /\ hpc[i] # "done"
        /\ \A j \in Updates : ~InJob(j)

\* C16: a download after which no output file exists, although the tool
\* reported success, is treated as failed: the step that ends it sends no
\* file and never shows the completion; it reports a failure, by an edit of
\* the status message or by a fresh message when the edit fails.
C16_MissingFileFails ==
    [][\A i \in {k \in Updates : hpc[k] = "downloading"} :
       \A okSend \in BOOLEAN, okEdit \in BOOLEAN, okReply \in BOOLEAN :
          DownloadEnd(i, "nofile", okSend, okEdit, okReply) =>
              /\ hfail'[i]
              /\ hres'[i] # "ok"
              /\ msg'[Target(i)] # "completed"
              /\ hres'[i] = (IF okEdit THEN "shown" ELSE IF okReply THEN "fresh" ELSE "sendfailed")
              /\ okEdit => msg'[Target(i)] = "error"]_vars

\* a download started by a button press has ended in a failure and the
\* status message shows the error (the state a download without a file
\* leads to)
C16_Witness ==
    \E i \in 1..Len(updates) :
        /\ updates[i].kind = "cb"
        /\ hpc[i] = "done"
        /\ hfail[i]
        /\ hres[i] = "shown"
        /\ msg[Target(i)] = "error"
        /\ i \notin threads

(***************************************************************************)
(* Claims about renditions and quality buttons                             *)
(***************************************************************************)

\* the format a button of the keyboard refers to, NoFormat for a video tier:
\* the bot has no download of video
TierFormat(kind, tier) == IF kind = "audio" THEN tiers[tier].format ELSE NoFormat

HasAudio(r) == r.kind \in {"audio", "muxed"}

\* C18: a quality button is on the keyboard only if the formats of the URL
\* include one it can be served from (never a dead button).
C18_NoDeadButton ==
    \A b \in offered : \E r \in renditions : HasAudio(r) /\ b.kind = "audio"

\* C19: for formats without a usable entry (none at all, or none that is
\* muxed or audio-only) the probe ends in the error and no button is shown.
C19_NoUsableNoButtons ==
    (tpc # "url" /\ \A r \in renditions : ~HasAudio(r)) =>
        /\ tpc = "error"
        /\ offered = {}

\* the keyboard of status message m was put up after the probe of its URL
\* had returned the info
ProbedAndShown(m) ==
    /\ m \in 1..Len(updates)
    /\ updates[m].kind = "url"
    /\ hpc[m] = "done"
    /\ hres[m] = "ok"
    /\ ~AutoDownload(updates[m].url)

C21_CacheHit ==
    /\ [](LET Holds(tr, text, lang, translated) ==
                  /\ text \in DOMAIN tr
                  /\ lang \in DOMAIN tr[text]
                  /\ tr[text][lang] = translated
          IN \A text \in Texts, lang \in Langs :
                trfirst[<<text, lang>>] # NoTranslation =>
                    /\ Holds(saved_translations, text, lang, trfirst[<<text, lang>>])
                    /\ translations_file.exists
                    /\ Holds(JsonLoad(translations_file.doc), text, lang,
                             trfirst[<<text, lang>>]))
    /\ [][\A text \in Texts, lang \in Langs :
            (/\ \E raised \in BOOLEAN, translated \in RemoteAnswers :
                    TranslateText(text, lang, raised, translated)
             /\ trfirst[<<text, lang>>] # NoTranslation) =>
                /\ trcall'.result = trfirst[<<text, lang>>]
                /\ ~trcall'.remote]_vars

\* two translations of one text were fetched, and a later request for the
\* first was answered from the cache
C21_Witness ==
    /\ trfirst[<<"Hello", "de">>] = "x"
    /\ trfirst[<<"Hello", "fr">>] = "y"
    /\ trcall = [text |-> "Hello", lang |-> "de", result |-> "x", remote |-> FALSE]
    /\ DOMAIN saved_translations = {"Hello"}

(***************************************************************************)
(* Claims about the dashboard and the run loop                             *)
(***************************************************************************)
\* C23: after any sequence of Start Bot / Stop Bot actions at most one bot
\* instance is polling Telegram at any time.
C23_OneBotPolling == Cardinality({b \in BotInstances : bots[b].pc = "polling"}) <= 1

\* C24: once the flag file is removed and not re-created, a running bot
\* eventually leaves its run loop and attempts the whole shutdown sequence,
\* the later steps also when an earlier one raises: a bot that has ended
\* after entering the sequence has attempted every step of it.
C24_FlagRemovedShutsDown ==
    LET all == {ShutdownSteps[k] : k \in 1..Len(ShutdownSteps)} IN
    /\ \A b \in BotInstances :
          (bots[b].pc = "polling" /\ ~flag_file) ~>
              (flag_file \/ (bots[b].pc = "ended" /\ bots[b].attempted = all))
    /\ [](\A b \in BotInstances :
            (bots[b].pc = "ended" /\ bots[b].attempted # {}) => bots[b].attempted = all)

\* a bot has ended after the flag file was removed, its first shutdown step
\* raised and the other two were attempted
C24_Witness ==
    \E b \in BotInstances :
        /\ ~flag_file
        /\ bots[b].pc = "ended"
        /\ "updater.stop" \in bots[b].raised
        /\ bots[b].attempted = {ShutdownSteps[k] : k \in 1..Len(ShutdownSteps)}

(***************************************************************************)
(* Claims about the temporary files                                        *)
(***************************************************************************)
\* C25: when download_audio or download_spotify_audio returns, on success
\* and on every failure path, nothing the call created remains under
\* storage/temp.
C25_NoTempLeft ==
    \A n \in Calls : (n < dl.n \/ (n = dl.n /\ dl.pc = "returned")) => Mine(n) = {}

(***************************************************************************)
(* Claims about the Updater                                                *)
(***************************************************************************)
\* C26: with auto-update enabled at most one update runs at a time, and in
\* every reachable state either an update is running or exactly one next
\* update is scheduled, never both and never two.  An update is running
\* from the creation of its task to its end.
C26_OneChain ==
    upc = "on" =>
        /\ utasks + (IF updating THEN 1 ELSE 0) <= 1
        /\ Len(timers) = IF updating \/ utasks > 0 THEN 0 ELSE 1

\* the timer has fired at 04:20:00 and the update has been running for
\* seven seconds, with no next update scheduled yet
C26_Witness ==
    /\ upc = "on"
    /\ updating
    /\ utasks = 0
    /\ timers = <<>>
    /\ now = [hour |-> 4, minute |-> 20, second |-> 7]

\* C30: at every wall-clock time the delay computed by
\* _schedule_next_update is the number of seconds until the next 04:20:00
\* and lies in 1..86400; a handle is due at 04:20:00 and at no other time.
C30_DelayToTarget ==
    /\ [][LET SecondOfDay(t) == t.hour * 3600 + t.minute * 60 + t.second
              UntilTarget(t) ==
                  LET d == (86400 + 15600 - SecondOfDay(t)) % 86400
                  IN IF d = 0 THEN 86400 ELSE d
          IN Len(timers') > Len(timers) =>
                /\ timers'[Len(timers')] = UntilTarget(now)
                /\ timers'[Len(timers')] \in 1..86400]_vars
    /\ [](\A k \in 1..Len(timers) :
            timers[k] = 0 => now = [hour |-> 4, minute |-> 20, second |-> 0])

\* the Updater was made at 04:20:00 sharp: a full day's delay
C30_Witness ==
    /\ upc = "on"
    /\ now = [hour |-> 4, minute |-> 20, second |-> 0]
    /\ timers = <<86400>>

====
